---- MODULE Spec2Model ----
(***************************************************************************)
(* Model of the code-metrics engine (analyzeCode and its four analyzers:   *)
(* calculateCyclomaticComplexity, calculateMaxNestingDepth,                *)
(* findDuplicatedCode, analyzeDocumentation).                              *)
(*                                                                         *)
(* Source text is a string; the regular expressions of the source are      *)
(* modelled by character-level matchers over that string.  One action is   *)
(* one iteration of an analyzer's loop over the lines, or an analyzer's    *)
(* return.                                                                 *)
(***************************************************************************)
EXTENDS Integers, Sequences, FiniteSets, TLC

VARIABLES
    sourceCode,               \* the argument of analyzeCode
    lines,                    \* sourceCode.split('\n')
    pc,                       \* which analyzer is running: "cc","nest","dup","doc","done"
    index,                    \* number of lines the running loop has processed
    complexity,               \* calculateCyclomaticComplexity: let complexity
    ccLocations,              \* calculateCyclomaticComplexity: const locations
    maxDepth,                 \* calculateMaxNestingDepth: let maxDepth
    currentDepth,             \* calculateMaxNestingDepth: let currentDepth
    nestLocations,            \* calculateMaxNestingDepth: const locations
    stack,                    \* calculateMaxNestingDepth: const stack
    duplicates,               \* findDuplicatedCode: the Map, in insertion order
    totalComplexLines,        \* analyzeDocumentation: let totalComplexLines
    documentedComplexLines,   \* analyzeDocumentation: let documentedComplexLines
    lastLineWasComment,       \* analyzeDocumentation: let lastLineWasComment
    metrics,                  \* the CodeMetrics record under construction
    order,                    \* the order in which this call runs the analyzers
    seen,                     \* caller's log: the report first returned for each text
    prev,                     \* caller's log: the text of the call before this one
    repeat                    \* caller's log: this call's text was analysed before

vars == <<sourceCode, lines, pc, index, complexity, ccLocations, maxDepth,
          currentDepth, nestLocations, stack, duplicates, totalComplexLines,
          documentedComplexLines, lastLineWasComment, metrics,
          order, seen, prev, repeat>>

ccVars   == <<complexity, ccLocations>>
nestVars == <<maxDepth, currentDepth, nestLocations, stack>>
dupVars  == <<duplicates>>
docVars  == <<totalComplexLines, documentedComplexLines, lastLineWasComment>>
callVars == <<sourceCode, lines, order, prev, repeat>>

-----------------------------------------------------------------------------
(* Characters and strings *)

\* \w of the regular expressions
WordChars ==
    {"a","b","c","d","e","f","g","h","i","j","k","l","m","n","o","p","q","r",
     "s","t","u","v","w","x","y","z",
     "A","B","C","D","E","F","G","H","I","J","K","L","M","N","O","P","Q","R",
     "S","T","U","V","W","X","Y","Z",
     "0","1","2","3","4","5","6","7","8","9","_"}

\* \s of the regular expressions, and what String.prototype.trim strips
WhiteSpace == {" ", "\t", "\n", "\r", "\f"}

\* what `.` does not match
LineTerminators == {"\n", "\r"}

\* the character at 1-based position p, "" outside the string
Ch(s, p) == IF p >= 1 /\ p <= Len(s) THEN SubSeq(s, p, p) ELSE ""

IsWordChar(c) == c \in WordChars

\* the literal lit occurs in s starting at position p
MatchAt(s, p, lit) ==
    /\ p >= 1
    /\ p + Len(lit) - 1 <= Len(s)
    /\ SubSeq(s, p, p + Len(lit) - 1) = lit

\* \b holds between positions p-1 and p
WordBoundary(s, p) == IsWordChar(Ch(s, p - 1)) # IsWordChar(Ch(s, p))

\* \bw\b matches at position p
WordAt(s, p, w) ==
    /\ WordBoundary(s, p)
    /\ MatchAt(s, p, w)
    /\ WordBoundary(s, p + Len(w))

\* the first position >= p of s that holds no white space (Len(s)+1 if none)
RECURSIVE SkipSpaces(_, _)
SkipSpaces(s, p) ==
    IF p <= Len(s) /\ Ch(s, p) \in WhiteSpace THEN SkipSpaces(s, p + 1) ELSE p

RECURSIVE TrimStart(_)
TrimStart(s) ==
    IF Len(s) > 0 /\ Ch(s, 1) \in WhiteSpace
    THEN TrimStart(SubSeq(s, 2, Len(s)))
    ELSE s

RECURSIVE TrimEnd(_)
TrimEnd(s) ==
    IF Len(s) > 0 /\ Ch(s, Len(s)) \in WhiteSpace
    THEN TrimEnd(SubSeq(s, 1, Len(s) - 1))
    ELSE s

\* String.prototype.trim
Trim(s) == TrimEnd(TrimStart(s))

\* String.prototype.startsWith
StartsWith(s, lit) == MatchAt(s, 1, lit)

\* the position of the first "\n" of s at or after p, 0 if none
RECURSIVE FindNewline(_, _)
FindNewline(s, p) ==
    IF p > Len(s) THEN 0
    ELSE IF Ch(s, p) = "\n" THEN p
    ELSE FindNewline(s, p + 1)

\* String.prototype.split('\n')
RECURSIVE Split(_)
Split(s) ==
    LET n == FindNewline(s, 1) IN
    IF n = 0 THEN <<s>>
    ELSE <<SubSeq(s, 1, n - 1)>> \o Split(SubSeq(s, n + 1, Len(s)))

-----------------------------------------------------------------------------
(* The regular expressions of the source *)

\* the words of /\b(if|while|for|case|catch)\b|&&|\|\||\?/g
ControlFlowWords == {"if", "while", "for", "case", "catch"}

\* the control-flow pattern with its \b assertions left out
ControlFlowMatchLenAnywhere(s, p) ==
    IF \E w \in ControlFlowWords : MatchAt(s, p, w)
    THEN Len(CHOOSE w \in ControlFlowWords : MatchAt(s, p, w))
    ELSE IF MatchAt(s, p, "&&") THEN 2
    ELSE IF MatchAt(s, p, "||") THEN 2
    ELSE IF MatchAt(s, p, "?") THEN 1
    ELSE 0

\* length of the match of the control-flow pattern that starts at p, 0 if none
ControlFlowMatchLen(s, p) ==
    IF \E w \in ControlFlowWords : WordAt(s, p, w)
    THEN Len(CHOOSE w \in ControlFlowWords : WordAt(s, p, w))
    ELSE IF MatchAt(s, p, "&&") THEN 2
    ELSE IF MatchAt(s, p, "||") THEN 2
    ELSE IF MatchAt(s, p, "?") THEN 1
    ELSE 0

\* line.match(/.../g): the number of non-overlapping matches found scanning
\* from position p, left to right (0 stands for the null result)
RECURSIVE ControlFlowMatches(_, _)
ControlFlowMatches(s, p) ==
    IF p > Len(s) THEN 0
    ELSE LET n == ControlFlowMatchLen(s, p) IN
         IF n > 0 THEN 1 + ControlFlowMatches(s, p + n)
         ELSE ControlFlowMatches(s, p + 1)

\* /\belse\b/.test(line)
ElseTest(s) == \E p \in 1..Len(s) : WordAt(s, p, "else")

\* /\belse\s+if\b/.test(line)
ElseIfTest(s) ==
    \E p \in 1..Len(s) :
        /\ WordBoundary(s, p)
        /\ MatchAt(s, p, "else")
        /\ LET q == SkipSpaces(s, p + 4) IN
            /\ q > p + 4
            /\ MatchAt(s, q, "if")
            /\ WordBoundary(s, q + 2)

\* the second test of the forEach callback: an else that is counted
BareElseTest(s) == ElseTest(s) /\ ~ElseIfTest(s)

\* the words of /\b(if|for|while|switch|do)\b.*{/
NestingWords == {"if", "for", "while", "switch", "do"}

\* .*{ matches from position p: a `{` at q >= p with no line terminator between
DotStarBrace(s, p) ==
    \E q \in p..Len(s) :
        /\ Ch(s, q) = "{"
        /\ \A r \in p..(q - 1) : Ch(s, r) \notin LineTerminators

\* /\b(if|for|while|switch|do)\b.*{/.test(s)
ControlOpenTest(s) ==
    \E p \in 1..Len(s) : \E w \in NestingWords :
        WordAt(s, p, w) /\ DotStarBrace(s, p + Len(w))

\* /\belse\b.*{/.test(s)
ElseOpenTest(s) ==
    \E p \in 1..Len(s) : WordAt(s, p, "else") /\ DotStarBrace(s, p + 4)

\* (s.match(/}/g) || []).length
CloseBraces(s) == Cardinality({p \in 1..Len(s) : Ch(s, p) = "}"})

\* the characters of trivialRegex = /^[\)\}\;]+$/
TrivialChars == {")", "}", ";"}

\* trivialRegex.test(s)
TrivialTest(s) == Len(s) >= 1 /\ \A p \in 1..Len(s) : Ch(s, p) \in TrivialChars

\* /kw\s+\w+/.test(s), for kw one of function, class, interface
DeclTest(s, kw) ==
    \E p \in 1..Len(s) :
        /\ MatchAt(s, p, kw)
        /\ LET q == SkipSpaces(s, p + Len(kw)) IN
            q > p + Len(kw) /\ IsWordChar(Ch(s, q))

\* /\bw\b/.test(s)
WordTest(s, w) == \E p \in 1..Len(s) : WordAt(s, p, w)

\* complexPatterns.some(pattern => pattern.test(s))
ComplexTest(s) ==
    \/ DeclTest(s, "function")
    \/ DeclTest(s, "class")
    \/ DeclTest(s, "interface")
    \/ WordTest(s, "if")
    \/ WordTest(s, "for")
    \/ WordTest(s, "while")
    \/ WordTest(s, "switch")

\* line.startsWith('//') || line.startsWith('/*') || line.startsWith('*')
CommentTest(s) == StartsWith(s, "//") \/ StartsWith(s, "/*") \/ StartsWith(s, "*")


-----------------------------------------------------------------------------
(* Inputs *)

\* the longest text built from each pool, in lines
MaxCCLines == 2
MaxNestLines == 4
MaxDupLines == 4
MaxDocLines == 3
MaxBlankLines == 3
\* the deepest text of the opener/closer family
MaxK == 3

\* lines with and without decision tokens and else
CCPool ==
    {"", "x = 1;", "if (a && b) {", "ifValue = c ? 1 : 2;", "} else if (c) {",
     "} else {", "} else { a } else { b }", "else if (a) {} else {}",
     "for (;;) { while (a || b) {", "notify(elsewhere);"}

\* lines that open blocks, close them, do both, or neither
NestPool ==
    {"", "if (a) {", "  for (b) {", "}", "}}", "} else {", "if (x) { }"}

\* control openers without `}` and lines holding a single `}`
OpenerPool == {"if (a) {", "  for (b) {", "    while (c) {"}
CloserPool == {"}", "  }"}

\* repeated lines: two that differ only by outer white space, a trivial one,
\* a short one
DupPool ==
    {"const x = 1;", "  const x = 1;\t", "foo();", "});", "ab"}

\* comments, complex lines, a comment that is complex, and neither
DocPool ==
    {"", "x = 1;", "// comment", "if (x) { }", "  * if documented",
     "function foo() {"}

\* lines that hold white space only
BlankPool == {"", "  ", "\t"}

\* the sequences of 1..n lines over a pool
TextsOver(pool, n) == UNION { [1..k -> pool] : k \in 1..n }

\* k openers followed by k closers, k in 1..n
OpenCloseTexts(n) ==
    UNION { { o \o c : o \in [1..k -> OpenerPool], c \in [1..k -> CloserPool] }
            : k \in 1..n }

\* the text whose lines are ls
RECURSIVE Join(_)
Join(ls) ==
    IF Len(ls) = 1 THEN ls[1]
    ELSE ls[1] \o "\n" \o Join(Tail(ls))

InputLines ==
    TextsOver(CCPool, MaxCCLines)
        \cup TextsOver(NestPool, MaxNestLines)
        \cup OpenCloseTexts(MaxK)
        \cup TextsOver(DupPool, MaxDupLines)
        \cup TextsOver(DocPool, MaxDocLines)
        \cup TextsOver(BlankPool, MaxBlankLines)

Inputs == { Join(ls) : ls \in InputLines }

\* the texts that are analysed again and again
RecallInputs ==
    {"",
     "if (a && b) {\n} else {\n}",
     "// c\nif (x) { }\n// c",
     "foo();\nfoo();"}

-----------------------------------------------------------------------------
(* analyzeCode *)

EmptyMetrics ==
    [cyclomaticComplexity |-> <<>>, maxNestingDepth |-> <<>>,
     duplicatedCodeBlocks |-> <<>>, documentationCoverage |-> <<>>]

Analyzers == {"cc", "nest", "dup", "doc"}

\* the order of the calls in the object literal of analyzeCode
CodeOrder == <<"cc", "nest", "dup", "doc">>

\* every order in which the four analyzers can be run
Orders ==
    {o \in [1..4 -> Analyzers] : \A i, j \in 1..4 : i # j => o[i] # o[j]}

\* where analyzer a stands in this call's order
Pos(a) == CHOOSE i \in 1..4 : order[i] = a

\* what runs when analyzer a has returned
NextOf(a) == IF Pos(a) = 4 THEN "done" ELSE order[Pos(a) + 1]

\* a local that is never initialised again after the first call
Stale(entered, owner, initial, old) == old

\* a local of analyzer `owner` when analyzer `entered` is entered: its
\* declaration initialises it anew on every call
Fresh(entered, owner, initial, old) == IF entered = owner THEN initial ELSE old

\* the declarations at the head of the analyzer that is entered
Enter(entered) ==
    /\ complexity' = Fresh(entered, "cc", 1, complexity)
    /\ ccLocations' = Fresh(entered, "cc", <<>>, ccLocations)
    /\ maxDepth' = Fresh(entered, "nest", 0, maxDepth)
    /\ currentDepth' = Fresh(entered, "nest", 0, currentDepth)
    /\ nestLocations' = Fresh(entered, "nest", <<>>, nestLocations)
    /\ stack' = Fresh(entered, "nest", <<>>, stack)
    /\ duplicates' = Fresh(entered, "dup", <<>>, duplicates)
    /\ totalComplexLines' = Fresh(entered, "doc", 0, totalComplexLines)
    /\ documentedComplexLines' = Fresh(entered, "doc", 0, documentedComplexLines)
    /\ lastLineWasComment' = Fresh(entered, "doc", FALSE, lastLineWasComment)

\* analyzer a has returned and m is the record with its result stored: the
\* next analyzer is entered, or the record is returned to the caller
Proceed(a, m) ==
    /\ metrics' = m
    /\ pc' = NextOf(a)
    /\ index' = IF NextOf(a) = "done" THEN index ELSE 0
    /\ Enter(NextOf(a))
    /\ seen' = IF NextOf(a) = "done" /\ ~(\E r \in seen : r.text = sourceCode)
               THEN seen \cup {[text |-> sourceCode, report |-> m]}
               ELSE seen
    /\ UNCHANGED callVars

\* analyzeCode is entered with some text; the first analyzer starts
Init ==
    /\ sourceCode \in Inputs
    /\ lines = Split(sourceCode)
    /\ order = CodeOrder
    /\ pc = "cc"
    /\ index = 0
    /\ complexity = 1
    /\ ccLocations = <<>>
    /\ maxDepth = 0
    /\ currentDepth = 0
    /\ nestLocations = <<>>
    /\ stack = <<>>
    /\ duplicates = <<>>
    /\ totalComplexLines = 0
    /\ documentedComplexLines = 0
    /\ lastLineWasComment = FALSE
    /\ metrics = EmptyMetrics
    /\ seen = {}
    /\ prev = <<>>
    /\ repeat = FALSE

\* a session of calls: the first call, on a recall text, in any order
InitCalls ==
    /\ sourceCode \in RecallInputs
    /\ lines = Split(sourceCode)
    /\ order \in Orders
    /\ pc = order[1]
    /\ index = 0
    /\ complexity = 1
    /\ ccLocations = <<>>
    /\ maxDepth = 0
    /\ currentDepth = 0
    /\ nestLocations = <<>>
    /\ stack = <<>>
    /\ duplicates = <<>>
    /\ totalComplexLines = 0
    /\ documentedComplexLines = 0
    /\ lastLineWasComment = FALSE
    /\ metrics = EmptyMetrics
    /\ seen = {}
    /\ prev = <<>>
    /\ repeat = FALSE

\* analyzeCode is called again, on any recall text, in any order
AnalyzeCodeCall ==
    /\ pc = "done"
    /\ \E t \in RecallInputs, o \in Orders :
        /\ sourceCode' = t
        /\ lines' = Split(t)
        /\ order' = o
        /\ pc' = o[1]
        /\ Enter(o[1])
        /\ repeat' = (\E r \in seen : r.text = t)
    /\ index' = 0
    /\ metrics' = EmptyMetrics
    /\ prev' = <<sourceCode>>
    /\ UNCHANGED seen

-----------------------------------------------------------------------------
(* calculateCyclomaticComplexity *)

\* what the first if of the callback adds to complexity
ControlFlowCount(line) == ControlFlowMatches(line, 1)

\* what the second if of the callback adds to complexity
ElseCount(line) == IF BareElseTest(line) THEN 1 ELSE 0

\* the entries one callback pushes on locations
CCEntries(line, lineNo) ==
    LET loc == [line |-> lineNo, code |-> Trim(line)] IN
    (IF ControlFlowCount(line) > 0 THEN <<loc>> ELSE <<>>)
        \o (IF BareElseTest(line) THEN <<loc>> ELSE <<>>)

\* one call of the forEach callback
CCStep ==
    /\ pc = "cc"
    /\ index < Len(lines)
    /\ LET line == lines[index + 1] IN
        /\ complexity' = complexity + ControlFlowCount(line) + ElseCount(line)
        /\ ccLocations' = ccLocations \o CCEntries(line, index + 1)
    /\ index' = index + 1
    /\ UNCHANGED <<callVars, seen, pc, metrics, nestVars, dupVars, docVars>>

\* return { total: complexity, locations }
CCReturn ==
    /\ pc = "cc"
    /\ index = Len(lines)
    /\ Proceed("cc", [metrics EXCEPT !.cyclomaticComplexity =
                          [total |-> complexity, locations |-> ccLocations]])

-----------------------------------------------------------------------------
(* calculateMaxNestingDepth *)

\* the test that opens a frame
OpensBlock(trimmedLine) == ControlOpenTest(trimmedLine) \/ ElseOpenTest(trimmedLine)

\* stack.map((item, depth) => ({line, code, depth: depth + 1}))
Snapshot(st) ==
    [d \in 1..Len(st) |-> [line |-> st[d].line, code |-> st[d].code, depth |-> d]]

\* the frame tagged with the 0-based index instead of the line number
FrameZeroBased(idx, trimmedLine) == [line |-> idx, code |-> trimmedLine]

\* the frame pushed for the line at 0-based index idx
Frame(idx, trimmedLine) == [line |-> idx + 1, code |-> trimmedLine]

\* locations after a new maximum when the list is not cleared first
DeepestNoClear(locations, st) == locations \o Snapshot(st)

\* locations after a new maximum: cleared, then the whole stack pushed
Deepest(locations, st) == Snapshot(st)

\* the test for a new maximum with >= in place of >
IsDeeperOrEqual(depth, max) == depth >= max

\* currentDepth > maxDepth
IsDeeper(depth, max) == depth > max

\* currentDepth decremented n times without the clamp at 0
CloseDepthUnclamped(depth, n) == depth - n

\* currentDepth after n runs of the body of the closing-brace loop
RECURSIVE CloseDepth(_, _)
CloseDepth(depth, n) ==
    IF n = 0 THEN depth
    ELSE CloseDepth(IF depth - 1 > 0 THEN depth - 1 ELSE 0, n - 1)

\* the stack after n runs of the body of the closing-brace loop
RECURSIVE CloseStack(_, _)
CloseStack(st, n) ==
    IF n = 0 THEN st
    ELSE CloseStack(IF Len(st) > 0 THEN SubSeq(st, 1, Len(st) - 1) ELSE st, n - 1)

\* one call of the forEach callback: open, record a new maximum, then close
NestStep ==
    /\ pc = "nest"
    /\ index < Len(lines)
    /\ LET trimmedLine == Trim(lines[index + 1])
           opens       == OpensBlock(trimmedLine)
           depth1      == IF opens THEN currentDepth + 1 ELSE currentDepth
           stack1      == IF opens
                          THEN Append(stack, Frame(index, trimmedLine))
                          ELSE stack
           deeper      == opens /\ IsDeeper(depth1, maxDepth)
           closeBraces == CloseBraces(trimmedLine)
       IN
        /\ maxDepth' = IF deeper THEN depth1 ELSE maxDepth
        /\ nestLocations' = IF deeper THEN Deepest(nestLocations, stack1)
                                      ELSE nestLocations
        /\ currentDepth' = CloseDepth(depth1, closeBraces)
        /\ stack' = CloseStack(stack1, closeBraces)
    /\ index' = index + 1
    /\ UNCHANGED <<callVars, seen, pc, metrics, ccVars, dupVars, docVars>>

\* return { max: maxDepth, locations }
NestReturn ==
    /\ pc = "nest"
    /\ index = Len(lines)
    /\ Proceed("nest", [metrics EXCEPT !.maxNestingDepth =
                            [max |-> maxDepth, locations |-> nestLocations]])

-----------------------------------------------------------------------------
(* findDuplicatedCode *)

minLineLength == 3

\* the continue test without the trivial-punctuation pattern
SkippedLengthOnly(trimmedLine) == Len(trimmedLine) < minLineLength

\* the test of the continue statement
Skipped(trimmedLine) == Len(trimmedLine) < minLineLength \/ TrivialTest(trimmedLine)

\* duplicates.has(key)
MapHas(map, key) == \E k \in 1..Len(map) : map[k].code = key

\* the Map after set(key, []) when absent and get(key).push(lineNo);
\* entries keep their insertion order
MapPush(map, key, lineNo) ==
    IF MapHas(map, key)
    THEN [k \in 1..Len(map) |->
            IF map[k].code = key
            THEN [map[k] EXCEPT !.locations = Append(@, lineNo)]
            ELSE map[k]]
    ELSE Append(map, [code |-> key, locations |-> <<lineNo>>])

\* the filter with the threshold off by one (length > 2)
RECURSIVE FilterOverTwo(_)
FilterOverTwo(map) ==
    IF map = <<>> THEN <<>>
    ELSE (IF Len(Head(map).locations) > 2 THEN <<Head(map)>> ELSE <<>>)
             \o FilterOverTwo(Tail(map))

\* entries.filter(([_, locations]) => locations.length > 1)
RECURSIVE FilterRepeated(_)
FilterRepeated(map) ==
    IF map = <<>> THEN <<>>
    ELSE (IF Len(Head(map).locations) > 1 THEN <<Head(map)>> ELSE <<>>)
             \o FilterRepeated(Tail(map))

\* .map(([code, locations]) => ({code, occurrences, locations}))
ToBlocks(map) ==
    [k \in 1..Len(map) |->
        [code |-> map[k].code,
         occurrences |-> Len(map[k].locations),
         locations |-> [j \in 1..Len(map[k].locations) |->
                           [line |-> map[k].locations[j]]]]]

\* one iteration of the for loop
DupStep ==
    /\ pc = "dup"
    /\ index < Len(lines)
    /\ LET trimmedLine == Trim(lines[index + 1]) IN
        duplicates' = IF Skipped(trimmedLine) THEN duplicates
                      ELSE MapPush(duplicates, trimmedLine, index + 1)
    /\ index' = index + 1
    /\ UNCHANGED <<callVars, seen, pc, metrics, ccVars, nestVars, docVars>>

\* return Array.from(duplicates.entries()).filter(...).map(...)
DupReturn ==
    /\ pc = "dup"
    /\ index = Len(lines)
    /\ Proceed("dup", [metrics EXCEPT !.duplicatedCodeBlocks =
                           ToBlocks(FilterRepeated(duplicates))])

-----------------------------------------------------------------------------
(* analyzeDocumentation *)

\* the percentage computed without the test for zero complex lines (0/0)
PercentageUnguarded(total, documented) ==
    [num |-> documented * 100, den |-> total]

\* the percentage, an exact fraction num/den (the source computes it in
\* floating point)
Percentage(total, documented) ==
    IF total = 0 THEN [num |-> 100, den |-> 1]
    ELSE [num |-> documented * 100, den |-> total]

\* the count taken outside the test for a complex line
CountsAnyLineAfterComment(isComplex, isComment, lastWasComment) ==
    lastWasComment

\* the count taken from the line's own comment status
CountsOwnComment(isComplex, isComment, lastWasComment) ==
    isComplex /\ isComment

\* whether an iteration counts its line as documented
CountsAsDocumented(isComplex, isComment, lastWasComment) ==
    isComplex /\ lastWasComment

\* one iteration of the for loop
DocStep ==
    /\ pc = "doc"
    /\ index < Len(lines)
    /\ LET line      == Trim(lines[index + 1])
           isComment == CommentTest(line)
           isComplex == ComplexTest(line)
       IN
        /\ totalComplexLines' =
               IF isComplex THEN totalComplexLines + 1 ELSE totalComplexLines
        /\ documentedComplexLines' =
               IF CountsAsDocumented(isComplex, isComment, lastLineWasComment)
               THEN documentedComplexLines + 1 ELSE documentedComplexLines
        /\ lastLineWasComment' = isComment
    /\ index' = index + 1
    /\ UNCHANGED <<callVars, seen, pc, metrics, ccVars, nestVars, dupVars>>

\* return { totalComplexLines, documentedComplexLines, percentage }
DocReturn ==
    /\ pc = "doc"
    /\ index = Len(lines)
    /\ Proceed("doc", [metrics EXCEPT !.documentationCoverage =
                           [totalComplexLines |-> totalComplexLines,
                            documentedComplexLines |-> documentedComplexLines,
                            percentage |-> Percentage(totalComplexLines,
                                                      documentedComplexLines)]])

-----------------------------------------------------------------------------
(* Properties *)

\* analyzer a has returned in this call
Returned(a) == pc = "done" \/ Pos(a) < Pos(pc)

CCDone   == Returned("cc")
NestDone == Returned("nest")
DupDone  == Returned("dup")
DocDone  == Returned("doc")

\* analyzeCode has returned
AllDone == pc = "done"

\* every character of the line is white space
IsBlank(line) == \A p \in 1..Len(line) : Ch(line, p) \in WhiteSpace

AllBlank == \A k \in 1..Len(lines) : IsBlank(lines[k])

NeutralReport ==
    [cyclomaticComplexity  |-> [total |-> 1, locations |-> <<>>],
     maxNestingDepth       |-> [max |-> 0, locations |-> <<>>],
     duplicatedCodeBlocks  |-> <<>>,
     documentationCoverage |-> [totalComplexLines |-> 0,
                                documentedComplexLines |-> 0,
                                percentage |-> [num |-> 100, den |-> 1]]]

\* C1: analyzeCode("") returns the neutral report (complexity 1 with no
\* locations, nesting 0 with no locations, no duplicates, coverage 0/0 at
\* 100%), and so does every text whose lines are all blank.
C1_NeutralReport ==
    (AllDone /\ (sourceCode = "" \/ AllBlank)) => metrics = NeutralReport

\* the empty text has been analysed and the report is complete
C1_Witness == AllDone /\ sourceCode = "" /\ metrics = NeutralReport

\* the decision tokens, as the claims name them
DecisionWords == {"if", "while", "for", "case", "catch"}
DecisionOperators == {"&&", "||", "?"}

\* a decision token occurs in the line at position p
TokenAt(line, p) ==
    \/ \E w \in DecisionWords : WordAt(line, p, w)
    \/ \E o \in DecisionOperators : MatchAt(line, p, o)

\* an `else` not immediately followed by `if` occurs in the line at position p
BareElseAt(line, p) ==
    /\ WordAt(line, p, "else")
    /\ LET q == SkipSpaces(line, p + 4) IN
        ~(q > p + 4 /\ MatchAt(line, q, "if") /\ WordBoundary(line, q + 2))

TokenOccurrences(line) == Cardinality({p \in 1..Len(line) : TokenAt(line, p)})

BareElseOccurrences(line) == Cardinality({p \in 1..Len(line) : BareElseAt(line, p)})

NoDecisionAnywhere ==
    \A k \in 1..Len(lines) :
        TokenOccurrences(lines[k]) = 0 /\ BareElseOccurrences(lines[k]) = 0

\* C2: the complexity total is at least 1 at every point of the scan and in
\* the result; when no line holds a decision token or a bare else, the total
\* is 1 and there are no locations.
C2_TotalAtLeastOne ==
    /\ complexity >= 1
    /\ CCDone =>
        /\ metrics.cyclomaticComplexity.total >= 1
        /\ NoDecisionAnywhere =>
            /\ metrics.cyclomaticComplexity.total = 1
            /\ metrics.cyclomaticComplexity.locations = <<>>

\* a text with keyword-like identifiers but no decision has been scanned
C2_Witness ==
    /\ CCDone
    /\ NoDecisionAnywhere
    /\ \E k \in 1..Len(lines) : lines[k] = "notify(elsewhere);"

RECURSIVE SumOccurrences(_)
SumOccurrences(ls) ==
    IF ls = <<>> THEN 0
    ELSE TokenOccurrences(Head(ls)) + BareElseOccurrences(Head(ls))
             + SumOccurrences(Tail(ls))

\* C3: the complexity total is 1 + the occurrences of decision tokens over
\* all lines + the occurrences of else not followed by if, each such else
\* counted once per occurrence.
C3_CountsEveryOccurrence ==
    CCDone => metrics.cyclomaticComplexity.total = 1 + SumOccurrences(lines)

\* C4: in the result of calculateMaxNestingDepth, when max > 0 locations has
\* exactly max entries whose depth tags are 1, 2, ..., max in that order, and
\* when max = 0 locations is empty.
C4_LocationsMatchMax ==
    NestDone =>
        LET r == metrics.maxNestingDepth IN
        /\ r.max > 0 =>
            /\ Len(r.locations) = r.max
            /\ \A d \in 1..Len(r.locations) : r.locations[d].depth = d
        /\ r.max = 0 => r.locations = <<>>

\* a text whose maximum was raised more than once has been scanned
C4_Witness ==
    /\ NestDone
    /\ metrics.maxNestingDepth.max >= 2
    /\ Len(metrics.maxNestingDepth.locations) = metrics.maxNestingDepth.max

\* the keywords that open a control block
OpenerKeywords == {"if", "for", "while", "switch", "do", "else"}

HasChar(t, c) == \E p \in 1..Len(t) : Ch(t, p) = c

\* a control-opening line: keyword ... `{`, with no `}`
IsOpenerLine(line) ==
    LET t == Trim(line) IN
    /\ \E w \in OpenerKeywords : StartsWith(t, w) /\ WordBoundary(t, Len(w) + 1)
    /\ Ch(t, Len(t)) = "{"
    /\ ~HasChar(t, "}")

\* a line holding a single `}`
IsLoneClose(line) == Trim(line) = "}"

\* the text is k openers followed by k lone closing braces
OpenCloseShape(k) ==
    /\ Len(lines) = 2 * k
    /\ \A i \in 1..k : IsOpenerLine(lines[i])
    /\ \A i \in (k + 1)..(2 * k) : IsLoneClose(lines[i])

\* C5: for k control-opening lines followed by k lines each holding a single
\* `}`, max = k and locations is the k opener lines in order, entry i being
\* (line i, trimmed text of line i, depth i).
C5_OpenersThenClosers ==
    NestDone =>
        \A k \in 1..Len(lines) :
            OpenCloseShape(k) =>
                /\ metrics.maxNestingDepth.max = k
                /\ metrics.maxNestingDepth.locations =
                       [i \in 1..k |->
                           [line |-> i, code |-> Trim(lines[i]), depth |-> i]]

\* three indented openers and their three closers have been scanned
C5_Witness ==
    /\ NestDone
    /\ OpenCloseShape(3)
    /\ lines[2] # Trim(lines[2])

\* a `} else {` line: closes one block and opens another
IsElseLine(line) == Trim(line) = "} else {"

\* an opener that opens exactly one block
IsSingleOpener(line) ==
    /\ IsOpenerLine(line)
    /\ Cardinality({p \in 1..Len(line) : Ch(line, p) = "{"}) = 1

InNestingClass ==
    \A k \in 1..Len(lines) :
        \/ IsBlank(lines[k])
        \/ IsSingleOpener(lines[k])
        \/ IsLoneClose(lines[k])
        \/ IsElseLine(lines[k])

\* the number of blocks open after the lines ls, starting from n open
\* blocks; -1 once a line closes a block that is not open
RECURSIVE OpenAfter(_, _)
OpenAfter(ls, n) ==
    IF ls = <<>> \/ n < 0 THEN n
    ELSE LET l == Head(ls) IN
         OpenAfter(Tail(ls),
                   IF IsBlank(l) THEN n
                   ELSE IF IsSingleOpener(l) THEN n + 1
                   ELSE IF IsLoneClose(l) THEN n - 1
                   ELSE IF n >= 1 THEN n ELSE -1)

BraceBalanced == OpenAfter(lines, 0) = 0

\* the largest number of blocks open at the same time
TrueMaxOpen ==
    LET after(k) == OpenAfter(SubSeq(lines, 1, k), 0)
        best[k \in 0..Len(lines)] ==
            IF k = 0 THEN 0
            ELSE IF after(k) > best[k - 1] THEN after(k) ELSE best[k - 1]
    IN best[Len(lines)]

\* C6: for a brace-balanced text of control openers, lone `}` and `} else {`
\* lines, max equals the largest number of control blocks open at the same
\* time.
C6_MaxIsDeepestOpen ==
    (NestDone /\ InNestingClass /\ BraceBalanced) =>
        metrics.maxNestingDepth.max = TrueMaxOpen

\* the trimmed line consists only of the characters ) } ;
OnlyPunctuation(t) == \A p \in 1..Len(t) : Ch(t, p) \in {")", "}", ";"}

\* C7: no block returned by findDuplicatedCode has a code made only of the
\* characters ) } ; and none has a code shorter than 3 characters, however
\* often such lines repeat.
C7_NoTrivialBlocks ==
    DupDone =>
        \A b \in 1..Len(metrics.duplicatedCodeBlocks) :
            LET code == metrics.duplicatedCodeBlocks[b].code IN
            ~OnlyPunctuation(code) /\ Len(code) >= 3

\* a punctuation line and a short line each repeat in a scanned text
C7_Witness ==
    /\ DupDone
    /\ \E i, j \in 1..Len(lines) :
        i < j /\ Trim(lines[i]) = "});" /\ Trim(lines[j]) = "});"
    /\ \E i, j \in 1..Len(lines) :
        i < j /\ Trim(lines[i]) = "ab" /\ Trim(lines[j]) = "ab"

\* the 1-based numbers of the lines whose trimmed text is t
LinesOf(t) == {i \in 1..Len(lines) : Trim(lines[i]) = t}

NonTrivial(t) == Len(t) >= 3 /\ ~OnlyPunctuation(t)

\* the trimmed texts that must be reported
Repeated ==
    {t \in {Trim(lines[i]) : i \in 1..Len(lines)} :
        NonTrivial(t) /\ Cardinality(LinesOf(t)) >= 2}

\* C8: findDuplicatedCode returns exactly one block per non-trivial trimmed
\* text that occurs on at least 2 lines, and nothing else; a block's
\* locations are all and only the lines whose trimmed text is its code, in
\* strictly ascending order; occurrences is their number; blocks are ordered
\* by the line of their first occurrence.
C8_ExactDuplicateBlocks ==
    DupDone =>
        LET blocks == metrics.duplicatedCodeBlocks IN
        /\ \A b \in 1..Len(blocks) : blocks[b].code \in Repeated
        /\ \A t \in Repeated :
            Cardinality({b \in 1..Len(blocks) : blocks[b].code = t}) = 1
        /\ \A b \in 1..Len(blocks) :
            LET locs == blocks[b].locations IN
            /\ {locs[j].line : j \in 1..Len(locs)} = LinesOf(blocks[b].code)
            /\ \A j \in 1..(Len(locs) - 1) : locs[j].line < locs[j + 1].line
            /\ blocks[b].occurrences = Len(locs)
        /\ \A a, b \in 1..Len(blocks) :
            a < b => blocks[a].locations[1].line < blocks[b].locations[1].line

\* two interleaved duplicates, one of them differing in outer white space
C8_Witness ==
    /\ DupDone
    /\ Len(metrics.duplicatedCodeBlocks) = 2
    /\ metrics.duplicatedCodeBlocks[1].locations[2].line
           > metrics.duplicatedCodeBlocks[2].locations[1].line
    /\ \E i, j \in 1..Len(lines) :
        lines[i] # lines[j] /\ Trim(lines[i]) = Trim(lines[j])

\* C9: after every line of the scan 0 <= documentedComplexLines <=
\* totalComplexLines; in the result percentage is 100 when there are no
\* complex lines and 100 * documented / total otherwise, so within 0..100.
C9_CoverageBounds ==
    /\ 0 <= documentedComplexLines
    /\ documentedComplexLines <= totalComplexLines
    /\ DocDone =>
        LET r == metrics.documentationCoverage IN
        /\ r.percentage.den > 0
        /\ r.totalComplexLines = 0 => r.percentage.num = 100 * r.percentage.den
        /\ r.totalComplexLines # 0 =>
            r.percentage.num * r.totalComplexLines
                = 100 * r.documentedComplexLines * r.percentage.den
        /\ 0 <= r.percentage.num
        /\ r.percentage.num <= 100 * r.percentage.den

\* a result with some but not all complex lines documented
C9_Witness ==
    /\ DocDone
    /\ 0 < metrics.documentationCoverage.documentedComplexLines
    /\ metrics.documentationCoverage.documentedComplexLines
           < metrics.documentationCoverage.totalComplexLines

IsComplexLine(i) == ComplexTest(Trim(lines[i]))
IsCommentLine(i) == CommentTest(Trim(lines[i]))

\* C10: totalComplexLines is the number of lines classified complex, and
\* documentedComplexLines is the number of lines i >= 2 that are complex and
\* whose line i-1 is a comment.
C10_DocumentedByPreviousLine ==
    DocDone =>
        /\ metrics.documentationCoverage.totalComplexLines =
               Cardinality({i \in 1..Len(lines) : IsComplexLine(i)})
        /\ metrics.documentationCoverage.documentedComplexLines =
               Cardinality({i \in 2..Len(lines) :
                               IsComplexLine(i) /\ IsCommentLine(i - 1)})

\* a complex comment on line 1 documents line 2 but not itself
C10_Witness ==
    /\ DocDone
    /\ Len(lines) >= 2
    /\ IsComplexLine(1) /\ IsCommentLine(1)
    /\ IsComplexLine(2)
    /\ metrics.documentationCoverage.totalComplexLines = 2
    /\ metrics.documentationCoverage.documentedComplexLines = 1

\* C11: the report is a function of the text alone: whenever analyzeCode
\* returns, on a text it has analysed before, after any other calls and with
\* the analyzers run in any order, the report equals the one returned for
\* that text the first time.
C11_ReportDependsOnTextOnly ==
    AllDone => \A r \in seen : r.text = sourceCode => r.report = metrics

\* a text is analysed a second time, after a call on another text, with the
\* analyzers run in another order than the source's, and has duplicates
C11_Witness ==
    /\ AllDone
    /\ repeat
    /\ prev # <<>>
    /\ prev[1] # sourceCode
    /\ order # CodeOrder
    /\ Cardinality(seen) >= 2
    /\ metrics.duplicatedCodeBlocks # <<>>

\* the stack with each frame tagged with its 1-based depth
Tagged(st) ==
    [d \in 1..Len(st) |-> [line |-> st[d].line, code |-> st[d].code, depth |-> d]]

\* the line the nesting scan is about to process opens a block
NextLineOpens == OpensBlock(Trim(lines[index + 1]))

\* the stack right after that line's frame is pushed
StackWithNextLine ==
    Append(stack, [line |-> index + 1, code |-> Trim(lines[index + 1])])

\* the step processes one line of the nesting scan
NestScanStep == pc = "nest" /\ index < Len(lines) /\ index' = index + 1

\* C12: the recorded locations change only at a step of the nesting scan
\* where currentDepth becomes strictly greater than the running maximum, and
\* are then replaced by the whole current stack; a line that reaches a depth
\* equal to the maximum leaves max and locations unchanged.
C12_ReplaceOnlyOnNewMaximum ==
    [][/\ nestLocations' # nestLocations =>
            /\ NestScanStep
            /\ NextLineOpens
            /\ currentDepth + 1 > maxDepth
            /\ maxDepth' = currentDepth + 1
            /\ nestLocations' = Tagged(StackWithNextLine)
       /\ (NestScanStep /\ NextLineOpens /\ currentDepth + 1 > maxDepth) =>
            /\ maxDepth' = currentDepth + 1
            /\ nestLocations' = Tagged(StackWithNextLine)
       /\ (NestScanStep /\ NextLineOpens /\ currentDepth + 1 = maxDepth) =>
            /\ maxDepth' = maxDepth
            /\ nestLocations' = nestLocations
      ]_vars

\* the scan stands at the maximum depth again, on another stack than the one
\* recorded
C12_Witness ==
    /\ pc = "nest"
    /\ maxDepth >= 1
    /\ currentDepth = maxDepth
    /\ Len(nestLocations) = maxDepth
    /\ Tagged(stack) # nestLocations

\* the line the nesting scan is about to process opens nothing and holds a `}`
NextLineOnlyCloses ==
    /\ ~NextLineOpens
    /\ HasChar(lines[index + 1], "}")

\* the number of `}` on the line the nesting scan is about to process
NextLineCloses ==
    Cardinality({p \in 1..Len(lines[index + 1]) : Ch(lines[index + 1], p) = "}"})

\* C13: in every state 0 <= currentDepth and currentDepth is the number of
\* frames on the stack; closing braces pop one frame each while there is
\* one, and a closing brace met at depth 0 leaves currentDepth, the stack,
\* max and locations unchanged.
C13_DepthIsStackSize ==
    /\ [](currentDepth >= 0 /\ currentDepth = Len(stack))
    /\ [][(NestScanStep /\ NextLineOnlyCloses) =>
            /\ currentDepth' = IF NextLineCloses >= currentDepth THEN 0
                               ELSE currentDepth - NextLineCloses
            /\ stack' = SubSeq(stack, 1, currentDepth')
            /\ UNCHANGED <<maxDepth, nestLocations>>
            /\ currentDepth = 0 => UNCHANGED <<currentDepth, stack>>]_vars

\* a line of two closing braces was scanned with one block open: the second
\* brace was met at depth 0
C13_Witness ==
    /\ pc = "nest"
    /\ index >= 2
    /\ Trim(lines[index]) = "}}"
    /\ IsOpenerLine(lines[index - 1])
    /\ currentDepth = 0
    /\ stack = <<>>
    /\ maxDepth >= 1

\* the line numbers of the entries the line at number i must contribute
ExpectedEntries(line, i) ==
    (IF TokenOccurrences(line) > 0 THEN <<i>> ELSE <<>>)
        \o (IF BareElseOccurrences(line) > 0 THEN <<i>> ELSE <<>>)

RECURSIVE ExpectedLines(_)
ExpectedLines(k) ==
    IF k = 0 THEN <<>>
    ELSE ExpectedLines(k - 1) \o ExpectedEntries(lines[k], k)

\* C14: the complexity locations have non-decreasing line numbers and hold,
\* per line, one entry if the line holds decision tokens plus one more if it
\* holds a bare else, and nothing else; so their number is at most total - 1.
C14_OneEntryPerLineAndElse ==
    CCDone =>
        LET r == metrics.cyclomaticComplexity IN
        /\ \A j \in 1..(Len(r.locations) - 1) :
            r.locations[j].line <= r.locations[j + 1].line
        /\ [j \in 1..Len(r.locations) |-> r.locations[j].line]
               = ExpectedLines(Len(lines))
        /\ Len(r.locations) <= r.total - 1

-----------------------------------------------------------------------------

Next ==
    \/ CCStep
    \/ CCReturn
    \/ NestStep
    \/ NestReturn
    \/ DupStep
    \/ DupReturn
    \/ DocStep
    \/ DocReturn

Spec == Init /\ [][Next]_vars

\* repeated calls of analyzeCode, each running the analyzers in some order
NextCalls == Next \/ AnalyzeCodeCall

SpecCalls == InitCalls /\ [][NextCalls]_vars

====
